---- MODULE Spec2Model ----
(***************************************************************************)
(* Hotel Finder Agent (ai_agents_course.py).                               *)
(*                                                                         *)
(* Two state machines are modelled:                                        *)
(*   - the agent loop (calling_model / calling_tools / continue_or_end,    *)
(*     driven by predict), specification Spec;                             *)
(*   - the body of the get_best_offer tool, one step per provider call,    *)
(*     specification SpecOffer.                                            *)
(***************************************************************************)
EXTENDS Integers, Sequences, FiniteSets, TLC

VARIABLES
    \* ---- agent loop (AgentState and the graph's position) ----
    messages,         \* AgentState.messages
    number_of_steps,  \* AgentState.number_of_steps
    pc,               \* node the graph runs next: thought_llm, tool_set, end, fault
    output,           \* predict: content of the last streamed state's last message
    nReasoning,       \* history: completed or attempted calling_model steps
    nActing,          \* history: calling_tools steps started
    dispatched,       \* history: tool invocations made by the latest calling_tools
    \* ---- get_best_offer ----
    gpc,              \* position in get_best_offer
    ids,              \* hotel identifiers of the listing
    i,                \* offset of the current batch
    j,                \* attempts made for the current batch
    req,              \* last response of the offer search for the current batch
    hotelOffers,      \* concatenation of the retrieved batches
    result,           \* value returned by get_best_offer
    calls,            \* history: offset -> answers to the attempts of that batch
    sent,             \* history: offset -> identifier slice sent for that batch
    \* ---- get_iata_of_city ----
    ipc,              \* position in get_iata_of_city
    country,          \* the country argument
    cities,           \* what the location provider does with the keyword search
    iataResult        \* value returned by get_iata_of_city

agentVars == <<messages, number_of_steps, pc, output, nReasoning, nActing, dispatched>>
offerVars == <<gpc, ids, i, j, req, hotelOffers, result, calls, sent>>
iataVars == <<ipc, country, cities, iataResult>>
vars == <<messages, number_of_steps, pc, output, nReasoning, nActing, dispatched,
          gpc, ids, i, j, req, hotelOffers, result, calls, sent,
          ipc, country, cities, iataResult>>

(***************************************************************************)
(* Bounds of the model.                                                    *)
(***************************************************************************)
MaxOffers == 2        \* offers listed per hotel in a provider response
MaxToolCalls == 3     \* tool-call requests the reasoning model makes in one turn
MaxCities == 2        \* records in one answer of the location provider
TailLen == 3          \* messages of the history kept by the unbounded loop
CountCap == 3         \* value at which the step counters of the unbounded loop stay

(***************************************************************************)
(* Values shared by both machines.                                         *)
(***************************************************************************)
None == [kind |-> "none"]
Unset == [kind |-> "unset"]
ErrorMapping(text) == [kind |-> "error", error |-> text]

\* ======================================================================
\*  get_best_offer
\* ======================================================================

BatchSize == 50       \* step of range(0, 99, 50) and width of ids[i : i+50]
RangeStop == 99       \* stop of range(0, 99, 50)
RetryBound == 5       \* while not req and j < 5

\* range(0, 99, 50)
BatchOffsets == {o \in 0..(RangeStop - 1) : o % BatchSize = 0}

\* the next value of the for loop after offset o, or -1 when the range is exhausted
NextOffset(o) == IF o + BatchSize < RangeStop THEN o + BatchSize ELSE -1

\* ids[ i : ] in place of ids[ i : i+50 ]
Slice_Unclipped(s, o) ==
    LET lo == IF o < Len(s) THEN o + 1 ELSE Len(s) + 1
    IN  [k \in 1..(Len(s) - lo + 1) |-> s[lo + k - 1]]

\* ids[ i : i+50 ] with Python's clipping of out-of-range slice bounds
Slice(s, o) ==
    LET lo == IF o < Len(s) THEN o + 1 ELSE Len(s) + 1
        hi == IF o + BatchSize < Len(s) THEN o + BatchSize ELSE Len(s)
    IN  [k \in 1..(hi - lo + 1) |-> s[lo + k - 1]]

\* Price texts as the provider sends them: integer part and fractional digits.
\* "95.5" and "95.50" are different texts of the same amount.
PriceTexts ==
    { [int |-> 95,  frac |-> <<5>>],
      [int |-> 95,  frac |-> <<5, 0>>],
      [int |-> 120, frac |-> <<0, 0>>] }

\* float(text): the amount as <<units \div 10^6, units % 10^6, hundredths>>
\* (10^12 does not fit one integer of the checker); the digits are parsed, a
\* missing second fractional digit counts as 0.
Float(text) ==
    LET d1 == IF Len(text.frac) >= 1 THEN text.frac[1] ELSE 0
        d2 == IF Len(text.frac) >= 2 THEN text.frac[2] ELSE 0
    IN  <<text.int \div 1000000, text.int % 1000000, 10 * d1 + d2>>

\* a < b on amounts
Less(a, b) == \/ a[1] < b[1]
              \/ a[1] = b[1] /\ a[2] < b[2]
              \/ a[1] = b[1] /\ a[2] = b[2] /\ a[3] < b[3]

\* bestprice = 1000000000000
InitialBestPrice == <<1000000, 0, 0>>

\* An offer of a hotel: a well-formed one carries price.total and price.currency,
\* a malformed one lacks price.total (offer['price']['total'] raises KeyError).
WellFormedOffers == {[total |-> t, currency |-> "EUR"] : t \in PriceTexts}
MalformedOffer == [currency |-> "EUR"]
Offers == WellFormedOffers \cup {MalformedOffer}

SeqsUpTo(S, n) == UNION {[1..m -> S] : m \in 0..n}

\* the offers a response lists for one hotel: well-formed ones, or a single
\* malformed one
OfferLists == SeqsUpTo(WellFormedOffers, MaxOffers) \cup {<<MalformedOffer>>}

\* what the offer search can answer for a slice of identifiers: nothing for an
\* empty slice, else offers of the last hotel of the slice
HotelsOf(slice) == IF Len(slice) = 0 THEN {} ELSE {slice[Len(slice)]}
HotelOffersOf(slice) ==
    {[hotel |-> h, offers |-> os] : h \in HotelsOf(slice), os \in OfferLists}
ResponseData(slice) == {<<>>} \cup {<<ho>> : ho \in HotelOffersOf(slice)}

\* the Offer Record built at lines 91-99 (the echoed search parameters are
\* the same in every record of one run and are left out)
OfferRecord(hotelOffer, offer) ==
    [kind |-> "offer",
     hotelName |-> hotelOffer.hotel,
     offerTotalAccommodationAmount |-> offer.total,
     offerCurrency |-> offer.currency]

\* ScanOffer with line 90 (bestprice = currentPrice) left out
ScanOffer_KeepsBound(acc, hotelOffer, offer) ==
    IF acc.raised THEN acc
    ELSE IF "total" \notin DOMAIN offer
         THEN [acc EXCEPT !.raised = TRUE]
         ELSE IF Less(Float(offer.total), acc.bestprice)
              THEN [acc EXCEPT !.bestOffer = OfferRecord(hotelOffer, offer)]
              ELSE acc

\* ScanOffer with <= in place of < at line 89
ScanOffer_ReplacesOnEqual(acc, hotelOffer, offer) ==
    IF acc.raised THEN acc
    ELSE IF "total" \notin DOMAIN offer
         THEN [acc EXCEPT !.raised = TRUE]
         ELSE IF ~Less(acc.bestprice, Float(offer.total))
              THEN [bestprice |-> Float(offer.total),
                    bestOffer |-> OfferRecord(hotelOffer, offer),
                    raised |-> FALSE]
              ELSE acc

\* one iteration of the inner loop, lines 88-99: acc is
\* [bestprice, bestOffer, raised]
ScanOffer(acc, hotelOffer, offer) ==
    IF acc.raised THEN acc
    ELSE IF "total" \notin DOMAIN offer
         THEN [acc EXCEPT !.raised = TRUE]
         ELSE LET currentPrice == Float(offer.total)
              IN  IF Less(currentPrice, acc.bestprice)
                  THEN [bestprice |-> currentPrice,
                        bestOffer |-> OfferRecord(hotelOffer, offer),
                        raised |-> FALSE]
                  ELSE acc

RECURSIVE ScanOffers(_, _, _)
\* for offer in hotelOffer['offers'], from the k-th offer on
ScanOffers(acc, hotelOffer, k) ==
    IF k > Len(hotelOffer.offers) THEN acc
    ELSE ScanOffers(ScanOffer(acc, hotelOffer, hotelOffer.offers[k]), hotelOffer, k + 1)

RECURSIVE ScanHotels(_, _, _)
\* for hotelOffer in hotelOffers, from the k-th hotel on
ScanHotels(acc, hos, k) ==
    IF k > Len(hos) THEN acc
    ELSE ScanHotels(ScanOffers(acc, hos[k], 1), hos, k + 1)

\* lines 84-101: the reduction and the value it returns (or raises)
BestOfferOf(hos) ==
    ScanHotels([bestprice |-> InitialBestPrice, bestOffer |-> None, raised |-> FALSE], hos, 1)

NoOffersFound == ErrorMapping("No Offers Found")

\* the hotel listing answers with n identifiers; identifier k is the k-th listed
ListingSizes == {0, 1, BatchSize + 1, 2 * BatchSize + 1}
Listing(n) == [k \in 1..n |-> k]

NoCalls == [o \in BatchOffsets |-> <<>>]
NoSlices == [o \in BatchOffsets |-> <<>>]

OfferIdle ==
    /\ gpc = "idle" /\ ids = <<>> /\ i = 0 /\ j = 0 /\ req = None
    /\ hotelOffers = <<>> /\ result = Unset /\ calls = NoCalls /\ sent = NoSlices

OfferStart ==
    /\ gpc = "start" /\ ids = <<>> /\ i = 0 /\ j = 0 /\ req = None
    /\ hotelOffers = <<>> /\ result = Unset /\ calls = NoCalls /\ sent = NoSlices

\* while not req and j < 5, line 75: only None is a false response
ShouldRetry_OffByOne(r, n) == r = None /\ n <= RetryBound
ShouldRetry(r, n) == r = None /\ n < RetryBound

\* an except clause that returns the best offer of the batches retrieved so far
RaiseInOffer_KeepsBest ==
    /\ result' = BestOfferOf(hotelOffers).bestOffer
    /\ gpc' = "done"

\* the except clause, lines 102-103: whatever was retrieved is dropped
RaiseInOffer ==
    /\ result' = NoOffersFound
    /\ gpc' = "done"

\* lines 68-74: the hotel listing, then the first batch is entered
ListHotels ==
    /\ gpc = "start"
    /\ \/ /\ RaiseInOffer
          /\ UNCHANGED <<ids, i, j, req, hotelOffers, calls, sent>>
       \/ \E n \in ListingSizes :
            /\ ids' = Listing(n)
            /\ hotelOffers' = <<>>
            /\ i' = 0
            /\ req' = None
            /\ j' = 0
            /\ gpc' = "search"
            /\ UNCHANGED <<result, calls, sent>>
    /\ UNCHANGED <<agentVars, iataVars>>

\* lines 75-78: one iteration of the while loop, one call of the offer search.
\* The provider answers nothing (None), a response, or raises.
SearchOffers ==
    /\ gpc = "search"
    /\ ShouldRetry(req, j)
    /\ sent' = [sent EXCEPT ![i] = Slice(ids, i)]
    /\ \/ /\ j' = j + 1
          /\ req' = None
          /\ calls' = [calls EXCEPT ![i] = Append(@, None)]
          /\ UNCHANGED <<gpc, result>>
       \/ \E d \in ResponseData(Slice(ids, i)) :
            /\ j' = j + 1
            /\ req' = [kind |-> "response", data |-> d]
            /\ calls' = [calls EXCEPT ![i] = Append(@, [kind |-> "response", data |-> d])]
            /\ UNCHANGED <<gpc, result>>
       \/ /\ j' = j + 1
          /\ calls' = [calls EXCEPT ![i] = Append(@, [kind |-> "raise"])]
          /\ RaiseInOffer
          /\ UNCHANGED req
    /\ UNCHANGED <<ids, i, hotelOffers>>
    /\ UNCHANGED <<agentVars, iataVars>>

\* lines 80-81 and the step of the for loop: the while loop is left, the batch
\* is added when there is a response, and the next batch (or the reduction)
\* is entered
EndBatch ==
    /\ gpc = "search"
    /\ ~ShouldRetry(req, j)
    /\ hotelOffers' = IF req # None THEN hotelOffers \o req.data ELSE hotelOffers
    /\ IF NextOffset(i) # -1
       THEN /\ i' = NextOffset(i)
            /\ req' = None
            /\ j' = 0
            /\ UNCHANGED gpc
       ELSE /\ gpc' = "reduce"
            /\ UNCHANGED <<i, req, j>>
    /\ UNCHANGED <<ids, result, calls, sent>>
    /\ UNCHANGED <<agentVars, iataVars>>

\* lines 84-103: the reduction and the return
Reduce ==
    /\ gpc = "reduce"
    /\ LET best == BestOfferOf(hotelOffers)
       IN  result' = IF best.raised THEN NoOffersFound ELSE best.bestOffer
    /\ gpc' = "done"
    /\ UNCHANGED <<ids, i, j, req, hotelOffers, calls, sent>>
    /\ UNCHANGED <<agentVars, iataVars>>

NextOffer == ListHotels \/ SearchOffers \/ EndBatch \/ Reduce

\* ======================================================================
\*  get_iata_of_city
\* ======================================================================

CityNotFound == ErrorMapping("The city not found (no IATA code).")

\* records of the location provider: a well-formed one carries iataCode and
\* address.countryCode, a malformed one has no address (i.get('address') is
\* None and .get on it raises)
IataCodes == {"ATH", "ATL"}
CountryCodes == {"GR", "US", "CY"}
WellFormedCities == {[iataCode |-> c, countryCode |-> cc] : c \in IataCodes, cc \in CountryCodes}
MalformedCity == [iataCode |-> "ATH"]
CityRecords == WellFormedCities \cup {MalformedCity}

\* the provider raises, or answers with a list of records
ProviderRaise == [kind |-> "raise"]
CityAnswers == {ProviderRaise} \cup {[kind |-> "response", data |-> d] : d \in SeqsUpTo(CityRecords, MaxCities)}

\* [ i for i in s if keep(i) ] for keep = "the country code equals cc"
RECURSIVE FilterByCountry(_, _)
FilterByCountry(s, cc) ==
    IF Len(s) = 0 THEN <<>>
    ELSE IF Head(s).countryCode = cc
         THEN <<Head(s)>> \o FilterByCountry(Tail(s), cc)
         ELSE FilterByCountry(Tail(s), cc)

\* lines 37-39 without the fallback of lines 38-39
Reduced_NoFallback(data, cc) == FilterByCountry(data, cc)

\* lines 37-39: the records of the wanted country, or all when there is none
Reduced(data, cc) ==
    LET reducedCityNames == FilterByCountry(data, cc)
    IN  IF Len(reducedCityNames) = 0 THEN data ELSE reducedCityNames

RECURSIVE OutputDict(_, _)
\* lines 41-49 from the k-th record on: a later record with the same IATA code
\* replaces the entry of an earlier one
OutputDict(s, k) ==
    IF k = 0 THEN <<>>
    ELSE LET before == OutputDict(s, k - 1)
             entry == [countryCode |-> s[k].countryCode]
         IN  [c \in (DOMAIN before) \cup {s[k].iataCode} |->
                 IF c = s[k].iataCode THEN entry ELSE before[c]]

\* lines 35-54
IataOf(answer, cc) ==
    IF answer.kind = "raise" THEN CityNotFound
    ELSE IF \E k \in 1..Len(answer.data) : "countryCode" \notin DOMAIN answer.data[k]
         THEN CityNotFound
         ELSE LET reducedCityNames == Reduced(answer.data, cc)
              IN  [kind |-> "mapping",
                   entries |-> OutputDict(reducedCityNames, Len(reducedCityNames))]

IataIdle ==
    /\ ipc = "idle" /\ country = "GR" /\ cities = ProviderRaise /\ iataResult = Unset

\* the tool is called with a country and the provider is about to answer
IataStart ==
    /\ ipc = "call"
    /\ country \in {"GR", "US"}
    /\ cities \in CityAnswers
    /\ iataResult = Unset

\* lines 35-54
GetIata ==
    /\ ipc = "call"
    /\ iataResult' = IataOf(cities, country)
    /\ ipc' = "done"
    /\ UNCHANGED <<country, cities>>
    /\ UNCHANGED <<agentVars, offerVars>>

NextIata == GetIata

\* ======================================================================
\*  The tools, as the Acting phase sees them
\* ======================================================================

\* what a data provider does with one request
ProviderOutcomes == {"fault", "nodata", "malformed", "empty", "ok"}

Returned(v) == [raised |-> FALSE, value |-> v]
Raised == [raised |-> TRUE, value |-> None]
Mapping(of) == [kind |-> "mapping", of |-> of]

CouldNotEstimate == ErrorMapping("Could Not Estimate Price")

\* what the location provider hands to lines 35-54 for each provider outcome
CitiesWhen(out) ==
    CASE out = "fault"     -> ProviderRaise
      [] out = "nodata"    -> ProviderRaise
      [] out = "malformed" -> [kind |-> "response", data |-> <<MalformedCity>>]
      [] out = "empty"     -> [kind |-> "response", data |-> <<>>]
      [] out = "ok"        -> [kind |-> "response",
                               data |-> <<[iataCode |-> "ATH", countryCode |-> "GR"]>>]

\* lines 35-54: every fault inside the try block ends in the except clause
\* (data = None makes the comprehension of line 37 raise); an empty list of
\* cities runs the loop zero times and returns the empty dict
get_iata_of_city(out) == Returned(IataOf(CitiesWhen(out), "GR"))

\* the batches a run of lines 67-82 retrieves when the listing succeeds and the
\* offer search behaves as out on every call
RetrievedWhen(out) ==
    CASE out = "nodata"    -> <<>>
      [] out = "empty"     -> <<>>
      [] out = "malformed" -> <<[hotel |-> 1, offers |-> <<MalformedOffer>>]>>
      [] out = "ok"        -> <<[hotel |-> 1,
                                 offers |-> <<[total |-> [int |-> 120, frac |-> <<0, 0>>],
                                               currency |-> "EUR"]>>]>>

\* lines 67-103
get_best_offer(out) ==
    IF out = "fault" THEN Returned(NoOffersFound)
    ELSE LET best == BestOfferOf(RetrievedWhen(out))
         IN  IF best.raised THEN Returned(NoOffersFound) ELSE Returned(best.bestOffer)

\* lines 116-128: no try block; requests.get, response.json() and
\* data['conversion_rates'] raise into the caller
get_price_in_wanted_currency(out) ==
    CASE out = "fault"     -> Raised
      [] out = "nodata"    -> Returned(CouldNotEstimate)
      [] out = "malformed" -> Raised
      [] out = "empty"     -> Returned(CouldNotEstimate)
      [] out = "ok"        -> Returned(Mapping("price"))

\* lines 130-134
about_you(out) == Returned(Mapping("agent_services_info"))

\* tools = [ ... ], line 147
tools == {"get_iata_of_city", "get_best_offer", "get_price_in_wanted_currency", "about_you"}

\* tools declared with return_direct=True, line 130
ReturnDirect == {"about_you"}

\* tools_by_name[name].invoke(args), lines 153 and 162
Invoke(name, out) ==
    CASE name = "get_iata_of_city"             -> get_iata_of_city(out)
      [] name = "get_best_offer"               -> get_best_offer(out)
      [] name = "get_price_in_wanted_currency" -> get_price_in_wanted_currency(out)
      [] name = "about_you"                    -> about_you(out)

\* ======================================================================
\*  The agent loop
\* ======================================================================

Text(t) == [kind |-> "text", text |-> t]

Message(role, content) ==
    [role |-> role, content |-> content, tool_calls |-> <<>>,
     tool_call_id |-> None, name |-> ""]

\* the model's response: content and tool-call requests
AIMessage(content, tool_calls) ==
    [role |-> "assistant", content |-> content, tool_calls |-> tool_calls,
     tool_call_id |-> None, name |-> ""]

\* lines 164-168: the content is what the tool returned, the identifier and
\* the name are those of the request
ToolMessage(tool_response, tool_call) ==
    [role |-> "tool", content |-> tool_response, tool_calls |-> <<>>,
     tool_call_id |-> tool_call.id, name |-> tool_call.name]

\* results.append(...) skipping a tool that already has a result
AppendResult_Dedup(results, m) ==
    IF \E k \in 1..Len(results) : results[k].name = m.name
    THEN results
    ELSE Append(results, m)

\* results.insert(0, ...) in place of results.append(...)
AppendResult_Prepend(results, m) == <<m>> \o results

\* results.append(...), line 163
AppendResult(results, m) == Append(results, m)

\* a reducer that puts the update in front of the history
add_messages_Prepend(left, right) == right \o left

\* the add_messages reducer, line 12: new messages carry fresh message ids, so
\* none replaces an existing one and all are appended
add_messages(left, right) == left \o right

\* continue_or_end with the test of line 174 inverted
continue_or_end_Inverted(msgs) ==
    IF Len(msgs[Len(msgs)].tool_calls) = 0 THEN "continue" ELSE "end"

\* lines 172-176
continue_or_end(msgs) ==
    IF Len(msgs[Len(msgs)].tool_calls) = 0 THEN "end" ELSE "continue"

\* the conditional edges, lines 188-195
EdgeAfterModel(route) == IF route = "continue" THEN "tool_set" ELSE "end"

\* an edge from tool_set to END in place of the edge back to thought_llm
EdgeAfterTools_End == "end"

\* the edge after tool_set, line 197
EdgeAfterTools == "thought_llm"

\* a fault that is caught and ends the loop over the tool calls, the results
\* so far being returned
Aborted_KeepsResults(results, log) == [raised |-> FALSE, results |-> results, log |-> log]

\* a fault raised inside calling_tools leaves the function: the results built
\* so far are lost with its frame
Aborted(results, log) == [raised |-> TRUE, results |-> <<>>, log |-> log]

RECURSIVE calling_tools_from(_, _, _, _, _)
\* lines 160-170 from the k-th tool call on; outs[k] is what the provider does
\* for the k-th call; log records the invocations made
calling_tools_from(tool_calls, outs, k, results, log) ==
    IF k > Len(tool_calls) THEN [raised |-> FALSE, results |-> results, log |-> log]
    ELSE LET tool_call == tool_calls[k]
         IN  IF tool_call.name \notin tools
             THEN Aborted(results, log)
             ELSE LET r == Invoke(tool_call.name, outs[k])
                      entry == [id |-> tool_call.id, name |-> tool_call.name,
                                raised |-> r.raised, value |-> r.value]
                  IN  IF r.raised
                      THEN Aborted(results, Append(log, entry))
                      ELSE calling_tools_from(tool_calls, outs, k + 1,
                               AppendResult(results, ToolMessage(r.value, tool_call)),
                               Append(log, entry))

calling_tools(tool_calls, outs) == calling_tools_from(tool_calls, outs, 1, <<>>, <<>>)

\* names the reasoning model may put on a request
RequestedNames == tools \cup {"unregistered_tool"}

\* the requests of the n-th response: identifiers are fresh and pairwise distinct
Requests(names, n) ==
    [k \in 1..Len(names) |-> [name |-> names[k], id |-> <<n, k>>, args |-> names[k]]]

\* prior turn history handed over by the front end
Histories == { <<>>,
               << <<"user", Text(<<"earlier question", 0>>)>>,
                  <<"assistant", Text(<<"earlier answer", 0>>)>> >> }

\* lines 204-211
chat_messages(message, history) ==
    <<Message("system", Text(<<"system instruction", 0>>))>>
    \o [k \in 1..Len(history) |-> Message(history[k][1], history[k][2])]
    \o <<Message("user", message)>>

\* the content of the first message in place of the last
LastContent_First(msgs) == msgs[1].content

\* lines 215-216
LastContent(msgs) == msgs[Len(msgs)].content

AgentIdle ==
    /\ pc = "idle" /\ messages = <<>> /\ number_of_steps = Unset /\ output = Unset
    /\ nReasoning = 0 /\ nActing = 0 /\ dispatched = <<>>

\* predict up to the first streamed state (the input itself)
AgentStart ==
    /\ \E history \in Histories : messages = chat_messages(Text(<<"question", 0>>), history)
    /\ number_of_steps = Unset
    /\ pc = "thought_llm"
    /\ output = LastContent(messages)
    /\ nReasoning = 0 /\ nActing = 0 /\ dispatched = <<>>

\* a node that counts the step
StepsAfter_Counted(n) == [kind |-> "counted"]

\* number_of_steps after a node has run: neither node returns the key (lines
\* 157 and 170), so the value of the state is kept
StepsAfter(n) == n

\* tool-call requests made so far in the history
RECURSIVE RequestsMade(_)
RequestsMade(msgs) ==
    IF Len(msgs) = 0 THEN 0
    ELSE Len(msgs[Len(msgs)].tool_calls) + RequestsMade(SubSeq(msgs, 1, Len(msgs) - 1))

\* lines 155-157, then the conditional edge; the model either raises (its
\* retries are used up) or answers with content and zero or more requests
CallingModel ==
    /\ pc = "thought_llm"
    /\ nReasoning' = nReasoning + 1
    /\ \/ /\ pc' = "fault"
          /\ UNCHANGED <<messages, output>>
       \/ \E names \in SeqsUpTo(RequestedNames, MaxToolCalls - RequestsMade(messages)) :
            LET model_response == AIMessage(Text(<<"answer", nReasoning + 1>>),
                                            Requests(names, nReasoning + 1))
            IN  /\ messages' = add_messages(messages, <<model_response>>)
                /\ pc' = EdgeAfterModel(continue_or_end(messages'))
                /\ output' = LastContent(messages')
    /\ number_of_steps' = StepsAfter(number_of_steps)
    /\ UNCHANGED <<nActing, dispatched>>
    /\ UNCHANGED <<offerVars, iataVars>>

\* lines 159-170, then the edge back to thought_llm; a fault raised inside
\* the node ends the run and no update of the state is produced
CallingTools ==
    /\ pc = "tool_set"
    /\ nActing' = nActing + 1
    /\ LET tool_calls == messages[Len(messages)].tool_calls
       IN  \E outs \in [1..Len(tool_calls) -> ProviderOutcomes] :
             LET run == calling_tools(tool_calls, outs)
             IN  /\ dispatched' = run.log
                 /\ IF run.raised
                    THEN /\ pc' = "fault"
                         /\ UNCHANGED <<messages, output>>
                    ELSE /\ messages' = add_messages(messages, run.results)
                         /\ pc' = EdgeAfterTools
                         /\ output' = LastContent(messages')
    /\ number_of_steps' = StepsAfter(number_of_steps)
    /\ UNCHANGED nReasoning
    /\ UNCHANGED <<offerVars, iataVars>>

Init == AgentStart /\ OfferIdle /\ IataIdle
Next == CallingModel \/ CallingTools
Spec == Init /\ [][Next]_vars

\* ----------------------------------------------------------------------
\*  The loop without a bound on the number of cycles.  Both nodes and the
\*  conditional edge read only the last message (lines 161 and 174), so the
\*  history is kept up to its last TailLen messages and the counters stay at
\*  CountCap; the reasoning model answers with at most one request.
\* ----------------------------------------------------------------------

KeepTail(msgs) ==
    IF Len(msgs) > TailLen THEN SubSeq(msgs, Len(msgs) - TailLen + 1, Len(msgs)) ELSE msgs

Counted(n) == IF n < CountCap THEN n + 1 ELSE CountCap

\* lines 155-157, then the conditional edge
LoopModel ==
    /\ pc = "thought_llm"
    /\ nReasoning' = Counted(nReasoning)
    /\ \/ /\ pc' = "fault"
          /\ UNCHANGED <<messages, output>>
       \/ \E names \in SeqsUpTo(RequestedNames, 1) :
            LET model_response == AIMessage(Text(<<"answer", nReasoning'>>),
                                            Requests(names, nReasoning'))
                state == add_messages(messages, <<model_response>>)
            IN  /\ messages' = KeepTail(state)
                /\ pc' = EdgeAfterModel(continue_or_end(state))
                /\ output' = LastContent(state)
    /\ number_of_steps' = StepsAfter(number_of_steps)
    /\ UNCHANGED <<nActing, dispatched>>
    /\ UNCHANGED <<offerVars, iataVars>>

\* lines 159-170, then the edge back to thought_llm
LoopTools ==
    /\ pc = "tool_set"
    /\ nActing' = Counted(nActing)
    /\ LET tool_calls == messages[Len(messages)].tool_calls
       IN  \E outs \in [1..Len(tool_calls) -> ProviderOutcomes] :
             LET run == calling_tools(tool_calls, outs)
                 state == add_messages(messages, run.results)
             IN  /\ dispatched' = run.log
                 /\ IF run.raised
                    THEN /\ pc' = "fault"
                         /\ UNCHANGED <<messages, output>>
                    ELSE /\ messages' = KeepTail(state)
                         /\ pc' = EdgeAfterTools
                         /\ output' = LastContent(state)
    /\ number_of_steps' = StepsAfter(number_of_steps)
    /\ UNCHANGED nReasoning
    /\ UNCHANGED <<offerVars, iataVars>>

NextLoop == LoopModel \/ LoopTools

\* the graph runner always runs the node the last edge led to
SpecLoop == Init /\ [][NextLoop]_vars /\ WF_vars(NextLoop)

InitOffer == AgentIdle /\ OfferStart /\ IataIdle
SpecOffer == InitOffer /\ [][NextOffer]_vars

InitIata == AgentIdle /\ OfferIdle /\ IataStart
SpecIata == InitIata /\ [][NextIata]_vars

\* ======================================================================
\*  Properties of get_best_offer (SpecOffer)
\* ======================================================================

\* the answers of the offer search that were responses, by batch and attempt
IsResponse(o, k) == calls[o][k].kind = "response"

\* the offer search raised at some attempt
SomeCallRaised ==
    \E o \in BatchOffsets : \E k \in 1..Len(calls[o]) : calls[o][k].kind = "raise"

\* no offer at all in the batches that were retrieved
NoOfferRetrieved ==
    \A o \in BatchOffsets : \A k \in 1..Len(calls[o]) :
        IsResponse(o, k) =>
            \A h \in 1..Len(calls[o][k].data) : Len(calls[o][k].data[h].offers) = 0

\* C1: a returned Offer Record is one of the offers of the retrieved batches,
\* and its total price is less than or equal to the total price of every offer
\* of every retrieved batch.
C1_ReturnedOfferIsMinimum ==
    (gpc = "done" /\ result.kind = "offer") =>
        /\ \A o \in BatchOffsets : \A k \in 1..Len(calls[o]) :
              IsResponse(o, k) =>
                \A h \in 1..Len(calls[o][k].data) :
                  \A n \in 1..Len(calls[o][k].data[h].offers) :
                    LET offer == calls[o][k].data[h].offers[n]
                    IN  /\ "total" \in DOMAIN offer
                        /\ ~Less(Float(offer.total),
                                 Float(result.offerTotalAccommodationAmount))
        /\ \E o \in BatchOffsets : \E k \in 1..Len(calls[o]) :
              /\ IsResponse(o, k)
              /\ \E h \in 1..Len(calls[o][k].data) :
                   \E n \in 1..Len(calls[o][k].data[h].offers) :
                     result = OfferRecord(calls[o][k].data[h],
                                          calls[o][k].data[h].offers[n])

\* the minimum is found in the second batch, after a dearer offer of the first
\* batch and before a dearer offer of the same hotel
C1_Witness ==
    /\ gpc = "done" /\ result.kind = "offer"
    /\ result.hotelName > BatchSize
    /\ result.offerTotalAccommodationAmount.int = 95
    /\ Len(hotelOffers) = 2
    /\ Len(hotelOffers[1].offers) = 1
    /\ hotelOffers[1].offers[1].total.int = 120
    /\ Len(hotelOffers[2].offers) = 2
    /\ hotelOffers[2].offers[2].total.int = 120

\* C2 (as claimed): a run that ends with nothing to report returns the error
\* mapping: no offer in any retrieved batch implies the result is
\* {"error": "No Offers Found"}.
C2_NothingToReportIsError ==
    (gpc = "done" /\ NoOfferRetrieved) => result = NoOffersFound

\* the attempts of batch o all answered nothing
GaveUp(o) ==
    /\ Len(calls[o]) = RetryBound
    /\ \A k \in 1..Len(calls[o]) : calls[o][k] = None

\* C3: every batch is queried at most 5 times; an attempt is made only while
\* all earlier attempts of the batch answered nothing; every batch that is left
\* for the next one, or for the reduction, was queried at least once; and after
\* 5 attempts without a result the next batch is still queried.
C3_RetryPerBatch ==
    /\ \A o \in BatchOffsets :
         /\ Len(calls[o]) <= RetryBound
         /\ \A k \in 1..(Len(calls[o]) - 1) : calls[o][k] = None
    /\ \A o \in BatchOffsets :
         (gpc = "reduce" \/ (gpc = "search" /\ i > o) \/ (gpc = "done" /\ ~SomeCallRaised
                                                          /\ Len(calls[0]) > 0))
            => Len(calls[o]) >= 1
    /\ \A o \in BatchOffsets :
         (gpc = "done" /\ GaveUp(o) /\ NextOffset(o) # -1) => Len(calls[NextOffset(o)]) >= 1
    /\ \A o \in BatchOffsets :
         (Len(calls[o]) >= 1 /\ calls[o][Len(calls[o])].kind = "response" /\ i = o)
            => (req = calls[o][Len(calls[o])] /\ j = Len(calls[o]))

\* the first batch is given up after 5 attempts and the second batch answers
\* at its third attempt with the offer that is returned
C3_Witness ==
    /\ gpc = "done"
    /\ GaveUp(0)
    /\ Len(calls[BatchSize]) = 3
    /\ calls[BatchSize][3].kind = "response"
    /\ result.kind = "offer"

\* the data of the batch at offset o, when its last attempt was answered
RetrievedOf(o) ==
    IF Len(calls[o]) > 0 /\ calls[o][Len(calls[o])].kind = "response"
    THEN calls[o][Len(calls[o])].data
    ELSE <<>>

\* the retrieved batches in offset order
Retrieved == RetrievedOf(0) \o RetrievedOf(50)

\* positions <<hotel, offer>> of the offers of the retrieved batches
ScanPositions ==
    {<<h, n>> : h \in 1..Len(Retrieved), n \in 1..MaxOffers + 1} \cap
    UNION {{<<h, n>> : n \in 1..Len(Retrieved[h].offers)} : h \in 1..Len(Retrieved)}

ScannedBefore(a, b) == a[1] < b[1] \/ (a[1] = b[1] /\ a[2] < b[2])

AmountAt(pos) == Float(Retrieved[pos[1]].offers[pos[2]].total)

\* C14: the returned Offer Record is the first offer in scan order that has
\* the minimum total price: every offer scanned before it is strictly dearer,
\* no offer scanned after it is cheaper.
C14_FirstMinimumWins ==
    (gpc = "done" /\ result.kind = "offer") =>
        \E pos \in ScanPositions :
            /\ result = OfferRecord(Retrieved[pos[1]], Retrieved[pos[1]].offers[pos[2]])
            /\ \A other \in ScanPositions :
                 /\ ScannedBefore(other, pos) => Less(AmountAt(pos), AmountAt(other))
                 /\ ScannedBefore(pos, other) => ~Less(AmountAt(other), AmountAt(pos))

\* "95.5" of the first batch is kept although "95.50" of the second batch has
\* the same amount
C14_Witness ==
    /\ gpc = "done" /\ result.kind = "offer"
    /\ result.offerTotalAccommodationAmount = [int |-> 95, frac |-> <<5>>]
    /\ result.hotelName <= 50
    /\ Len(Retrieved) = 2
    /\ Len(Retrieved[2].offers) >= 1
    /\ Retrieved[2].offers[1].total = [int |-> 95, frac |-> <<5, 0>>]

\* C15: the offer search is called for the offsets 0 and 50 only; the slice
\* sent for offset o is the identifiers at positions o .. o+49 that exist, so
\* at most 50 of them and none at position 100 or later; a returned offer
\* belongs to one of the first 100 hotels; and the batch at offset 50 is
\* queried with an empty list when the listing has 50 identifiers or fewer.
C15_TwoBatchesOfFifty ==
    /\ BatchOffsets = {0, 50}
    /\ \A o \in BatchOffsets :
         IF Len(calls[o]) = 0 THEN sent[o] = <<>>
         ELSE /\ Len(sent[o]) <= 50
              /\ Len(sent[o]) = IF Len(ids) >= o + 50 THEN 50
                                ELSE IF Len(ids) > o THEN Len(ids) - o ELSE 0
              /\ \A k \in 1..Len(sent[o]) :
                   /\ sent[o][k] = ids[o + k]
                   /\ o + k <= 100
    /\ (gpc = "done" /\ result.kind = "offer") =>
         \E k \in 1..100 : k <= Len(ids) /\ result.hotelName = ids[k]
    /\ (gpc = "reduce" /\ Len(ids) <= 50) =>
         (Len(calls[50]) >= 1 /\ sent[50] = <<>>)

\* the listing has 101 hotels and the best offer is of the 100th, the last
\* that is ever sent
C15_Witness ==
    /\ gpc = "done" /\ result.kind = "offer"
    /\ Len(ids) = 101
    /\ Len(sent[0]) = 50 /\ Len(sent[50]) = 50
    /\ result.hotelName = 100

\* C18: a run in which the hotel listing or any attempt of any batch raised
\* returns the error mapping, whatever was retrieved before.
C18_FaultDiscardsEverything ==
    (gpc = "done" /\ (SomeCallRaised \/ Len(calls[0]) = 0)) => result = NoOffersFound

\* the first batch was retrieved with an offer and the second batch raised
C18_Witness ==
    /\ gpc = "done"
    /\ Len(RetrievedOf(0)) = 1
    /\ Len(RetrievedOf(0)[1].offers) = 1
    /\ "total" \in DOMAIN RetrievedOf(0)[1].offers[1]
    /\ Len(calls[50]) = 2
    /\ calls[50][2].kind = "raise"
    /\ result = NoOffersFound

\* ======================================================================
\*  Properties of the agent loop (Spec)
\* ======================================================================

Last(msgs) == msgs[Len(msgs)]

\* length of the history the turn starts from: it ends with the user message
SeedLen ==
    CHOOSE p \in 1..Len(messages) :
        /\ messages[p].role = "user"
        /\ \A q \in (p + 1)..Len(messages) : messages[q].role # "user"

\* a step of calling_tools that produces a state
ActingCompleted == pc = "tool_set" /\ pc' = EdgeAfterTools

\* the messages a step appends
Appended == SubSeq(messages', Len(messages) + 1, Len(messages'))

DistinctIds(reqs) ==
    \A a, b \in 1..Len(reqs) : a # b => reqs[a].id # reqs[b].id

Answers(m, request) == m.role = "tool" /\ m.tool_call_id = request.id

\* C4 (as claimed): every tool invocation made by calling_tools completes with
\* a success mapping or an error mapping; none raises.
C4_ToolsReturnMappings ==
    \A k \in 1..Len(dispatched) :
        /\ ~dispatched[k].raised
        /\ dispatched[k].value.kind \in {"mapping", "offer", "error"}

\* C5 (as claimed): once the result of about_you is in the history the loop
\* has ended: no assistant message follows it and its content is the output.
C5_TerminalToolEndsLoop ==
    \A p \in 1..Len(messages) :
        (messages[p].role = "tool" /\ messages[p].name \in ReturnDirect) =>
            /\ pc = "end"
            /\ \A q \in (p + 1)..Len(messages) : messages[q].role # "assistant"
            /\ output = messages[p].content

C6_State ==
    /\ pc = "end" => (Last(messages).role = "assistant"
                      /\ Len(Last(messages).tool_calls) = 0)
    /\ pc = "tool_set" => (Last(messages).role = "assistant"
                           /\ Len(Last(messages).tool_calls) > 0)
    /\ (Len(messages) > SeedLen /\ Len(messages[SeedLen + 1].tool_calls) = 0) =>
            /\ pc = "end"
            /\ nReasoning = 1
            /\ nActing = 0
            /\ Len(messages) = SeedLen + 1

C6_Step ==
    /\ (pc' = "end" /\ pc # "end") =>
            (pc = "thought_llm" /\ nReasoning' = nReasoning + 1 /\ nActing' = nActing)
    /\ (pc = "thought_llm" /\ pc' # "fault") =>
            (pc' = "end" <=> Len(Last(messages').tool_calls) = 0)

\* C6: a first response without tool-call requests ends the loop after one
\* Reasoning phase and no Acting phase; the end state is entered only by a
\* Reasoning step, and a Reasoning step enters it exactly when the assistant
\* message it appended has no tool-call requests.
C6_EndOnlyFromReasoning == []C6_State /\ [][C6_Step]_vars

\* the turn ended at the first response
C6_Witness ==
    /\ pc = "end" /\ nReasoning = 1 /\ nActing = 0
    /\ Len(messages) = SeedLen + 1
    /\ SeedLen > 2

\* C7: an Acting phase that produces a state leaves, for every request of the
\* latest assistant message (identifiers pairwise distinct), exactly one Tool
\* Result with that identifier in the state, and appends no Tool Result with an
\* identifier that was not requested.
C7_OneResultPerRequest ==
    [][ActingCompleted =>
         LET reqs == Last(messages).tool_calls
         IN  DistinctIds(reqs) =>
               /\ \A r \in 1..Len(reqs) :
                    Cardinality({p \in 1..Len(messages') :
                                    Answers(messages'[p], reqs[r])}) = 1
               /\ \A p \in 1..Len(Appended) :
                    \E r \in 1..Len(reqs) : Answers(Appended[p], reqs[r])
      ]_vars

\* two requests for the same tool were answered, each once
C7_Witness ==
    /\ pc = "thought_llm" /\ nActing = 1
    /\ Len(dispatched) = 2
    /\ dispatched[1].name = dispatched[2].name
    /\ Len(messages) = SeedLen + 3
    /\ Answers(messages[SeedLen + 2], messages[SeedLen + 1].tool_calls[1])
    /\ Answers(messages[SeedLen + 3], messages[SeedLen + 1].tool_calls[2])

\* C8 (as claimed): an Acting phase dispatches every request of the latest
\* assistant message (all naming registered tools) and answers each, whatever
\* the outcome of the other calls.
C8_SiblingsAlwaysDispatched ==
    [][(pc = "tool_set"
        /\ \A r \in 1..Len(Last(messages).tool_calls) :
              Last(messages).tool_calls[r].name \in tools)
       => LET reqs == Last(messages).tool_calls
          IN  /\ Len(dispatched') = Len(reqs)
              /\ \A r \in 1..Len(reqs) :
                    \E p \in 1..Len(Appended) : Answers(Appended[p], reqs[r])
      ]_vars

\* C9: the Tool Results appended by an Acting phase are as many as the requests
\* and the k-th carries the identifier and the name of the k-th request.
C9_ResultsInRequestOrder ==
    [][ActingCompleted =>
         LET reqs == Last(messages).tool_calls
         IN  /\ Len(Appended) = Len(reqs)
             /\ \A k \in 1..Len(reqs) :
                  /\ Appended[k].role = "tool"
                  /\ Appended[k].tool_call_id = reqs[k].id
                  /\ Appended[k].name = reqs[k].name
      ]_vars

\* two requests with the same name and arguments, then a different one, were
\* answered in that order
C9_Witness ==
    /\ pc = "thought_llm" /\ nActing = 2
    /\ Len(Last(messages).tool_calls) = 0
    /\ Len(messages) >= 3
    /\ LET n == Len(messages)
       IN  /\ messages[n - 2].role = "assistant"
           /\ Len(messages[n - 2].tool_calls) = 2
           /\ messages[n - 2].tool_calls[1].name = "get_best_offer"
           /\ messages[n - 2].tool_calls[2].name = "get_iata_of_city"
           /\ messages[n - 1].name = "get_best_offer"
           /\ messages[n].name = "get_iata_of_city"
           /\ messages[n - 1].tool_call_id[2] = 1
           /\ messages[n].tool_call_id[2] = 2

IsPrefix(s, t) == Len(s) <= Len(t) /\ SubSeq(t, 1, Len(s)) = s

\* positions of the assistant messages produced in this turn
AssistantPositions ==
    {q \in (SeedLen + 1)..Len(messages) : messages[q].role = "assistant"}

C10_State ==
    /\ \A p \in 1..Len(messages) :
         messages[p].role = "tool" =>
            \E q \in AssistantPositions :
               /\ q < p
               /\ \E r \in 1..Len(messages[q].tool_calls) :
                     Answers(messages[p], messages[q].tool_calls[r])
               /\ \A m \in (q + 1)..(p - 1) : messages[m].role # "assistant"
    /\ \A q \in AssistantPositions :
         ((\E n \in AssistantPositions : n > q) \/ (pc = "thought_llm"))
            => \A r \in 1..Len(messages[q].tool_calls) :
                  \E p \in (q + 1)..Len(messages) :
                     /\ Answers(messages[p], messages[q].tool_calls[r])
                     /\ \A m \in (q + 1)..p : messages[m].role # "assistant"

\* C10: every Tool Result follows the assistant message whose request it
\* answers with no assistant message in between; when Reasoning is invoked
\* after an Acting phase, and in every later state, all requests of an earlier
\* assistant message have their Tool Result before the next assistant message;
\* and a step only appends to the history.
C10_CausalAppendOnly == []C10_State /\ [][IsPrefix(messages, messages')]_vars

\* two Reasoning/Acting cycles on top of a prior history
C10_Witness ==
    /\ nReasoning = 2 /\ nActing = 2 /\ pc = "thought_llm"
    /\ SeedLen = 4
    /\ Cardinality(AssistantPositions) = 2
    /\ Cardinality({p \in 1..Len(messages) : messages[p].role = "tool"}) = 3
    /\ messages[Len(messages)].role = "tool"

\* C13: the turn starts from [system instruction, prior history in its order,
\* user message]; when the loop has ended the value predict returns is the
\* content of the last message, the assistant message without tool-call
\* requests, and not the content of any earlier message of the turn.
C13_ReturnsFinalContent ==
    /\ messages[1].role = "system"
    /\ messages[SeedLen].content = Text(<<"question", 0>>)
    /\ \E history \in Histories :
         /\ SeedLen = Len(history) + 2
         /\ \A k \in 1..Len(history) :
              /\ messages[k + 1].role = history[k][1]
              /\ messages[k + 1].content = history[k][2]
    /\ pc = "end" =>
         /\ output = Last(messages).content
         /\ Last(messages).role = "assistant"
         /\ Len(Last(messages).tool_calls) = 0
         /\ \A p \in 1..(Len(messages) - 1) : output # messages[p].content

\* the turn ended at the second response, after one Acting phase, on top of a
\* prior history
C13_Witness ==
    /\ pc = "end" /\ nReasoning = 2 /\ nActing = 1
    /\ SeedLen = 4
    /\ output = Text(<<"answer", 2>>)
    /\ Len(messages) > SeedLen + 2

\* C17: an Acting phase whose assistant message names an unregistered tool
\* ends in a fault: it appends nothing to the history, also when registered
\* siblings were invoked before, and after a fault no node runs any more.
C17_UnregisteredToolAborts ==
    [][/\ (pc = "tool_set"
           /\ \E r \in 1..Len(Last(messages).tool_calls) :
                 Last(messages).tool_calls[r].name \notin tools)
          => (pc' = "fault" /\ messages' = messages /\ output' = output)
       /\ pc # "fault"
      ]_vars

\* a registered sibling was invoked and returned before the unregistered name
\* was looked up
C17_Witness ==
    /\ pc = "fault" /\ nActing = 1
    /\ Len(Last(messages).tool_calls) = 2
    /\ Last(messages).tool_calls[2].name \notin tools
    /\ Len(dispatched) = 1
    /\ ~dispatched[1].raised

\* C19: no step of the loop changes number_of_steps.
C19_StepCounterUntouched == [][number_of_steps' = number_of_steps]_vars

\* two Reasoning/Acting cycles have run and the counter is as predict left it
C19_Witness ==
    /\ nReasoning = 2 /\ nActing = 2
    /\ number_of_steps = Unset

WellFormedAnswer ==
    /\ cities.kind = "response"
    /\ \A k \in 1..Len(cities.data) : "countryCode" \in DOMAIN cities.data[k]

MatchingCities == {k \in 1..Len(cities.data) : cities.data[k].countryCode = country}

\* C11: for a nonempty result set of well-formed records the output holds
\* exactly the IATA codes of the records of the given country when there is
\* one, and the IATA codes of all records otherwise; it is never empty.
C11_FilterWithFallback ==
    (ipc = "done" /\ WellFormedAnswer /\ Len(cities.data) > 0) =>
        /\ iataResult.kind = "mapping"
        /\ DOMAIN iataResult.entries # {}
        /\ IF MatchingCities # {}
           THEN /\ DOMAIN iataResult.entries =
                      {cities.data[k].iataCode : k \in MatchingCities}
                /\ \A c \in DOMAIN iataResult.entries :
                      iataResult.entries[c].countryCode = country
           ELSE DOMAIN iataResult.entries =
                      {cities.data[k].iataCode : k \in 1..Len(cities.data)}

\* no record of the wanted country: both records of the answer are returned
C11_Witness ==
    /\ ipc = "done" /\ WellFormedAnswer
    /\ Len(cities.data) = 2
    /\ MatchingCities = {}
    /\ iataResult.kind = "mapping"
    /\ DOMAIN iataResult.entries = IataCodes

\* C12 (as claimed): a provider failure or an empty final record set yields
\* the error mapping.
C12_EmptyIsCityNotFound ==
    (ipc = "done" /\ (cities.kind = "raise" \/ Len(cities.data) = 0)) =>
        iataResult = CityNotFound

====
